---- MODULE Spec2Model ----
(***************************************************************************)
(* The reactive pipeline of src/app.py (a Dash application): one upload    *)
(* callback writes the session store and the upload status, and three      *)
(* callbacks that take the store as Input derive the dropdown options, the *)
(* four KPI cards and the five figures.  The two dropdown values are       *)
(* Inputs of the figure callback only.                                     *)
(***************************************************************************)
EXTENDS Integers, Sequences, FiniteSets, TLC

---------------------------------------------------------------------------
(* Bounds of the model *)

\* the widest uploaded table
MaxCols == 5
\* data rows of an uploaded table that has rows
NRows == 2

---------------------------------------------------------------------------
(* Values *)

\* Python's None for a dropdown value
NoValue == "<None>"
\* Python's None for the store
None == [null |-> TRUE]

\* a cell is a number >= 0, a missing cell (NaN / JSON null) or a text cell
NaN == -1
Text == -2
IsNumber(c) == c >= 0

ColumnNames == <<"a", "b", "c", "d", "e", "f", "g">>

\* range(n) of Python, as the 1-based positions of a TLA+ sequence
Range(n) == 1..n

SeqToSet(s) == {s[i] : i \in DOMAIN s}

---------------------------------------------------------------------------
(* Uploaded files *)

\* the cells of column number i of an uploaded file, by the column's shape
ColumnCells(i, shape, rows) ==
    [r \in 1..rows |->
        CASE shape = "num" -> IF i % 2 = 1 THEN i + r - 1 ELSE i + rows - r
          [] shape = "gap" -> IF r = 1 THEN NaN ELSE i + r
          [] shape = "nan" -> NaN
          [] shape = "text" -> Text]

Shapes == {"num", "gap", "nan", "text"}

\* a parsed CSV: the columns in source order, each with its name and cells
MkFrame(shapes, rows) ==
    [i \in 1..Len(shapes) |->
        [name |-> ColumnNames[i], cells |-> ColumnCells(i, shapes[i], rows)]]

\* the shapes of the columns of the uploaded tables. Up to three columns the
\* first column takes every shape and the second is numbers or text; the
\* columns after the second, and all columns of a wider table, are numbers
ShapeSeqs ==
    UNION {{[i \in 1..n |-> IF i = 1 THEN s1 ELSE IF i = 2 THEN s2 ELSE "num"] :
                s1 \in (IF n <= 3 THEN Shapes ELSE {"num"}),
                s2 \in (IF n <= 3 THEN {"num", "text"} ELSE {"num"})} :
           n \in 1..MaxCols}

\* the files a user uploads: tables with rows, and header-only files
Frames == {MkFrame(sh, NRows) : sh \in ShapeSeqs}
          \cup {MkFrame([i \in 1..n |-> "num"], 0) : n \in 1..2}

---------------------------------------------------------------------------
(* pandas, as far as the callbacks use it *)

\* JSON null, what to_json writes for a missing cell
Null == -3

\* an emptiness test that looks at the columns only
empty_no_columns(df) == Len(df) = 0

\* df.empty: some axis has length 0
empty(df) == Len(df) = 0 \/ Len(df[1].cells) = 0

\* df.to_json(orient='split'): the column names and the cells row by row
to_json(df) ==
    [columns |-> [i \in 1..Len(df) |-> df[i].name],
     data |-> [r \in 1..Len(df[1].cells) |->
                 [i \in 1..Len(df) |->
                     IF df[i].cells[r] = NaN THEN Null ELSE df[i].cells[r]]]]

\* pd.read_json(json_data, orient='split'): back to columns
read_json(json_data) ==
    [i \in 1..Len(json_data.columns) |->
        [name |-> json_data.columns[i],
         cells |-> [r \in 1..Len(json_data.data) |->
                      IF json_data.data[r][i] = Null THEN NaN
                      ELSE json_data.data[r][i]]]]

\* the dtype pandas infers for a column
dtype(col) ==
    IF \E r \in DOMAIN col.cells : col.cells[r] = Text THEN "object"
    ELSE IF \E r \in DOMAIN col.cells : col.cells[r] = NaN THEN "float64"
    ELSE "int64"

IsNumberDtype(col) == dtype(col) \in {"int64", "float64"}

RECURSIVE NumberColumns(_, _)
\* the columns of df from position i on that have a number dtype, in order
NumberColumns(df, i) ==
    IF i > Len(df) THEN <<>>
    ELSE IF IsNumberDtype(df[i]) THEN <<df[i]>> \o NumberColumns(df, i + 1)
         ELSE NumberColumns(df, i + 1)

\* df.select_dtypes(include='number'): the numeric columns, in column order
select_dtypes(df) == NumberColumns(df, 1)

\* df.select_dtypes(include='number').columns
numeric_columns(df) ==
    LET num == select_dtypes(df) IN [i \in 1..Len(num) |-> num[i].name]

RECURSIVE SumCells(_, _)
SumCells(cells, r) ==
    IF r > Len(cells) THEN 0
    ELSE (IF IsNumber(cells[r]) THEN cells[r] ELSE 0) + SumCells(cells, r + 1)

CountCells(cells) == Cardinality({r \in DOMAIN cells : IsNumber(cells[r])})

\* a mean that divides by the number of rows, missing cells included
mean_over_rows(cells) ==
    IF CountCells(cells) = 0
    THEN [nan |-> TRUE, num |-> 0, den |-> 1]
    ELSE [nan |-> FALSE, num |-> SumCells(cells, 1), den |-> Len(cells)]

\* Series.mean(): the mean of the cells that are not NaN; NaN when there is none
mean(cells) ==
    IF CountCells(cells) = 0
    THEN [nan |-> TRUE, num |-> 0, den |-> 1]
    ELSE [nan |-> FALSE, num |-> SumCells(cells, 1), den |-> CountCells(cells)]

RECURSIVE SumProducts(_, _, _)
\* the sum of x[r] * y[r] over the rows
SumProducts(x, y, rows) ==
    IF rows = {} THEN 0
    ELSE LET r == CHOOSE q \in rows : TRUE
         IN x[r] * y[r] + SumProducts(x, y, rows \ {r})

RECURSIVE GCD(_, _)
GCD(a, b) == IF b = 0 THEN a ELSE GCD(b, a % b)

Sign(a) == IF a > 0 THEN 1 ELSE IF a < 0 THEN -1 ELSE 0

\* a correlation coefficient: NaN, or the number of the given sign whose
\* square is num / den (in lowest terms), so that 1.0 is sign 1, num 1, den 1
Coefficient(sign, num, den) ==
    [nan |-> FALSE, sign |-> sign, num |-> num \div GCD(num, den),
     den |-> den \div GCD(num, den)]
NaNCoefficient == [nan |-> TRUE, sign |-> 0, num |-> 0, den |-> 1]

\* the Pearson correlation of two columns over the rows where neither cell is
\* missing (min_periods = 1); NaN where there is no such row or one of the
\* two does not vary over them
Pearson(x, y) ==
    LET rows == {r \in DOMAIN x : IsNumber(x[r]) /\ IsNumber(y[r])}
        n == Cardinality(rows)
        ones == [r \in DOMAIN x |-> 1]
        sx == SumProducts(x, ones, rows)
        sy == SumProducts(y, ones, rows)
        cov == n * SumProducts(x, y, rows) - sx * sy
        vx == n * SumProducts(x, x, rows) - sx * sx
        vy == n * SumProducts(y, y, rows) - sy * sy
    IN IF n < 1 \/ vx * vy = 0 THEN NaNCoefficient
       ELSE Coefficient(Sign(cov), cov * cov, vx * vy)

\* a correlation matrix of which only the upper triangle is filled in
corr_upper(df) ==
    [i \in 1..Len(df) |-> [j \in 1..Len(df) |->
        IF j < i THEN NaNCoefficient ELSE Pearson(df[i].cells, df[j].cells)]]

\* DataFrame.corr(): the matrix of the pairwise Pearson correlations
corr(df) ==
    [i \in 1..Len(df) |-> [j \in 1..Len(df) |->
        Pearson(df[i].cells, df[j].cells)]]

\* f"{x:.2f}": "nan" for NaN, else x rounded to hundredths
Format2f(x) ==
    IF x.nan THEN [nan |-> TRUE, cents |-> 0]
    ELSE [nan |-> FALSE, cents |-> (200 * x.num + x.den) \div (2 * x.den)]

---------------------------------------------------------------------------
(* Inputs of the upload callback *)

Lower(ch) ==
    CASE ch = "C" -> "c" [] ch = "S" -> "s" [] ch = "V" -> "v"
      [] ch = "D" -> "d" [] OTHER -> ch

\* filename.lower()
lower(filename) == [i \in 1..Len(filename) |-> Lower(filename[i])]

\* sub in s, for strings as sequences of characters
Contains(sub, s) ==
    \E k \in 0..(Len(s) - Len(sub)) : \A j \in 1..Len(sub) : s[k + j] = sub[j]

Filenames ==
    {<<"d", ".", "c", "s", "v">>, <<"D", ".", "C", "S", "V">>,
     <<"d", ".", "t", "x", "t">>, <<"c", "s", "v", ".", "x", "l", "s">>}

\* the contents property of the upload: parts is the number of pieces that
\* contents.split(',') gives, b64ok and utf8ok say whether the payload decodes,
\* csv whether read_csv parses it, and frame is the table it then yields
MkContents(parts, b64ok, utf8ok, csv, frame) ==
    [parts |-> parts, b64ok |-> b64ok, utf8ok |-> utf8ok, csv |-> csv,
     frame |-> frame]

NoFrame == MkFrame(<<>>, 0)

BrokenContents ==
    {MkContents(1, TRUE, TRUE, "ok", NoFrame),
     MkContents(3, TRUE, TRUE, "ok", NoFrame),
     MkContents(2, FALSE, TRUE, "ok", NoFrame),
     MkContents(2, TRUE, FALSE, "ok", NoFrame),
     MkContents(2, TRUE, TRUE, "ragged", NoFrame),
     MkContents(2, TRUE, TRUE, "no_columns", NoFrame)}

Contents == {None} \cup BrokenContents
            \cup {MkContents(2, TRUE, TRUE, "ok", f) : f \in Frames}

---------------------------------------------------------------------------
(* The callbacks *)

Alert(text, color) == [text |-> text, color |-> color]
NoAlert == Alert("", "")

\* a callback that returns writes its outputs; one that raises writes none.
\* ran is the set of the decoding and parsing calls made on the way
Return(data, status, ran) ==
    [raised |-> FALSE, data |-> data, status |-> status, ran |-> ran]
Raise(ran) == [raised |-> TRUE, data |-> None, status |-> NoAlert, ran |-> ran]

BadExtension == Alert("Please upload a .csv file.", "danger")
ParseFailure == Alert("Error processing file", "danger")
EmptyTable == Alert("Uploaded CSV is empty.", "warning")
Success == Alert("File uploaded successfully!", "success")

\* a store_csv that looks at the filename after it has decoded the payload
store_csv_late_check(contents, filename) ==
    IF contents = None THEN Return(None, NoAlert, {})
    ELSE IF contents.parts # 2 THEN Raise({"split"})
    ELSE IF ~contents.b64ok THEN Raise({"split", "b64decode"})
    ELSE IF ~Contains(<<"c", "s", "v">>, lower(filename))
    THEN Return(None, BadExtension, {"split", "b64decode"})
    ELSE IF ~contents.utf8ok
    THEN Return(None, ParseFailure, {"split", "b64decode", "decode"})
    ELSE IF contents.csv # "ok"
    THEN Return(None, ParseFailure, {"split", "b64decode", "decode", "read_csv"})
    ELSE IF empty(contents.frame)
    THEN Return(None, EmptyTable, {"split", "b64decode", "decode", "read_csv"})
    ELSE Return(to_json(contents.frame), Success,
                {"split", "b64decode", "decode", "read_csv"})

store_csv(contents, filename) ==
    IF contents = None THEN Return(None, NoAlert, {})
    ELSE IF ~Contains(<<"c", "s", "v">>, lower(filename))
    THEN Return(None, BadExtension, {})
    ELSE IF contents.parts # 2 THEN Raise({"split"})
    ELSE IF ~contents.b64ok THEN Raise({"split", "b64decode"})
    ELSE IF ~contents.utf8ok
    THEN Return(None, ParseFailure, {"split", "b64decode", "decode"})
    ELSE IF contents.csv # "ok"
    THEN Return(None, ParseFailure, {"split", "b64decode", "decode", "read_csv"})
    ELSE IF empty(contents.frame)
    THEN Return(None, EmptyTable, {"split", "b64decode", "decode", "read_csv"})
    ELSE Return(to_json(contents.frame), Success,
                {"split", "b64decode", "decode", "read_csv"})

\* `not json_data`
Falsy(json_data) == json_data = None

populate_numeric_dropdowns(json_data) ==
    IF Falsy(json_data) THEN <<>>
    ELSE numeric_columns(read_json(json_data))

\* the text of one KPI card
Dash == [text |-> "-", label |-> "", nan |-> FALSE, cents |-> 0]
Avg(label, fmt) ==
    [text |-> "Avg", label |-> label, nan |-> fmt.nan, cents |-> fmt.cents]

\* the number of KPI cards
KpiCards == 4

\* a loop pass that shows a zero average where there is no column
KpiValue_zero(i, numeric) ==
    IF i <= Len(numeric)
    THEN Avg(numeric[i].name, Format2f(mean(numeric[i].cells)))
    ELSE Avg("", [nan |-> FALSE, cents |-> 0])

\* one pass of the loop of update_kpis, i counted from 1
KpiValue(i, numeric) ==
    IF i <= Len(numeric)
    THEN Avg(numeric[i].name, Format2f(mean(numeric[i].cells)))
    ELSE Dash

update_kpis(json_data) ==
    IF Falsy(json_data) THEN [i \in Range(KpiCards) |-> Dash]
    ELSE LET numeric == select_dtypes(read_json(json_data))
         IN [i \in Range(KpiCards) |-> KpiValue(i, numeric)]

\* a figure: a plot of kind over the columns x and y (the heatmap over
\* columns), or an empty figure carrying an annotation text
Figure(kind, x, y, columns) ==
    [kind |-> kind, x |-> x, y |-> y, columns |-> columns, z |-> <<>>,
     text |-> ""]
Annotation(text) ==
    [kind |-> "annotation", x |-> NoValue, y |-> NoValue, columns |-> <<>>,
     z |-> <<>>, text |-> text]

\* px.imshow(corr): the heatmap of the matrix z over the columns
Heatmap(columns, z) ==
    [kind |-> "heatmap", x |-> NoValue, y |-> NoValue, columns |-> columns,
     z |-> z, text |-> ""]

empty_fig == Annotation("No data")

Figures(fig1, fig2, fig3, fig4, fig5) ==
    [chart1 |-> fig1, chart2 |-> fig2, chart3 |-> fig3, chart4 |-> fig4,
     heatmap |-> fig5]

\* `not col` for a dropdown value
NotValue(col) == col = NoValue \/ col = ""

\* a defaulting that takes no notice of the selection
ResolveCol1_reset(col1, numeric_cols) ==
    IF Len(numeric_cols) > 0 THEN numeric_cols[1] ELSE NoValue

\* a defaulting that falls back to the last numeric column
ResolveCol1_last(col1, numeric_cols) ==
    IF NotValue(col1) \/ col1 \notin SeqToSet(numeric_cols)
    THEN IF Len(numeric_cols) > 0 THEN numeric_cols[Len(numeric_cols)] ELSE NoValue
    ELSE col1

\* a defaulting that takes a selection as it is, numeric in the table or not
ResolveCol1_unvalidated(col1, numeric_cols) ==
    IF NotValue(col1)
    THEN IF Len(numeric_cols) > 0 THEN numeric_cols[1] ELSE NoValue
    ELSE col1

\* col1 after the defaulting of update_charts; NoValue stands for the early
\* return when there is no numeric column
ResolveCol1(col1, numeric_cols) ==
    IF NotValue(col1) \/ col1 \notin SeqToSet(numeric_cols)
    THEN IF Len(numeric_cols) > 0 THEN numeric_cols[1] ELSE NoValue
    ELSE col1

\* a defaulting of col2 that falls back to the first numeric column
ResolveCol2_first(col2, numeric_cols) ==
    IF NotValue(col2) \/ col2 \notin SeqToSet(numeric_cols)
    THEN IF Len(numeric_cols) > 1 THEN numeric_cols[1] ELSE NoValue
    ELSE col2

\* col2 after the defaulting of update_charts; NoValue is Python's None
ResolveCol2(col2, numeric_cols) ==
    IF NotValue(col2) \/ col2 \notin SeqToSet(numeric_cols)
    THEN IF Len(numeric_cols) > 1 THEN numeric_cols[2] ELSE NoValue
    ELSE col2

update_charts(json_data, col1, col2) ==
    IF Falsy(json_data)
    THEN Figures(empty_fig, empty_fig, empty_fig, empty_fig, empty_fig)
    ELSE
      LET numeric_cols == numeric_columns(read_json(json_data))
          c1 == ResolveCol1(col1, numeric_cols)
          c2 == ResolveCol2(col2, numeric_cols)
          fig1 == Figure("histogram", c1, NoValue, <<>>)
          fig2 == Figure("pie", c1, NoValue, <<>>)
          fig3 == Figure("line", NoValue, c1, <<>>)
          fig4 == IF ~NotValue(c2)
                  THEN Figure("scatter", c1, c2, <<>>)
                  ELSE Annotation("Not enough numeric columns for Scatter Plot")
          fig5 == IF Len(numeric_cols) >= 2
                  THEN Heatmap(numeric_cols,
                               corr(select_dtypes(read_json(json_data))))
                  ELSE Annotation("Not enough numeric columns for Heatmap")
      IN IF c1 = NoValue
         THEN Figures(empty_fig, empty_fig, empty_fig, empty_fig, empty_fig)
         ELSE Figures(fig1, fig2, fig3, fig4, fig5)

---------------------------------------------------------------------------
(* The state of one browser session *)

VARIABLES
    stored_data,     \* dcc.Store 'stored-data': None or the table as JSON
    upload_status,   \* children of 'upload-status'
    options1,        \* options of 'numeric-column-dropdown'
    options2,        \* options of 'numeric-column-dropdown-2'
    col1_value,      \* value of 'numeric-column-dropdown'
    col2_value,      \* value of 'numeric-column-dropdown-2'
    kpi,             \* children of 'kpi-1-value' .. 'kpi-4-value'
    charts,          \* figures of 'chart-1' .. 'chart-4' and 'heatmap-chart'
    pending,         \* the callbacks triggered and not yet run
    charts_data,     \* history: the json_data the last update_charts was given
    last_event       \* history: the last user event

vars == <<stored_data, upload_status, options1, options2, col1_value,
          col2_value, kpi, charts, pending, charts_data, last_event>>

\* the callbacks that have 'stored-data' as an Input
\* a wiring in which update_kpis does not have the store as an Input
TriggeredByStore_no_kpis == {"populate_numeric_dropdowns", "update_charts"}

\* the callbacks that have stored-data as an Input
TriggeredByStore == {"populate_numeric_dropdowns", "update_kpis", "update_charts"}

\* a wiring in which the dropdown values also trigger update_kpis
TriggeredByValue_kpis == {"update_charts", "update_kpis"}

\* the callbacks that have a dropdown value as an Input
TriggeredByValue == {"update_charts"}

\* an update_charts that keeps working on the data of its previous call
InputData_cached(current, previous) == previous

\* the json_data update_charts is called with: the store as it is now, not
\* the data of its previous call
InputData(current, previous) == current

\* whether the file is one that store_csv is to load: judged on the upload alone
GoodFile(contents, filename) ==
    /\ contents # None
    /\ Contains(<<"c", "s", "v">>, lower(filename))
    /\ contents.parts = 2 /\ contents.b64ok /\ contents.utf8ok
    /\ contents.csv = "ok"
    /\ ~empty(contents.frame)

UploadOutcome(contents, filename) ==
    IF contents = None THEN "cleared"
    ELSE IF GoodFile(contents, filename) THEN "loaded" ELSE "failed"

\* whether the filename names a CSV file: it holds "csv" in some case
NamesCsv(filename) ==
    \E k \in 1..(Len(filename) - 2) :
        /\ filename[k] \in {"c", "C"}
        /\ filename[k + 1] \in {"s", "S"}
        /\ filename[k + 2] \in {"v", "V"}

\* what is uploaded, judged on the upload alone: the first thing wrong with it
InputClass(contents, filename) ==
    IF contents = None THEN "none"
    ELSE IF ~NamesCsv(filename) THEN "bad_name"
    ELSE IF contents.parts # 2 THEN "envelope"
    ELSE IF ~contents.b64ok THEN "base64"
    ELSE IF ~contents.utf8ok THEN "utf8"
    ELSE IF contents.csv # "ok" THEN "rows"
    ELSE IF Len(contents.frame) > 0 /\ Len(contents.frame[1].cells) = 0
    THEN "header_only"
    ELSE "table"

\* history records: an upload with its outcome, what was uploaded, the calls
\* store_csv made on it and the selection it met; a selection change; the
\* page load
UploadEvent(outcome, input, ran) ==
    [kind |-> "upload", outcome |-> outcome, input |-> input, ran |-> ran,
     col1 |-> col1_value, col2 |-> col2_value]
SelectEvent ==
    [kind |-> "select", outcome |-> "none", input |-> "none", ran |-> {},
     col1 |-> NoValue, col2 |-> NoValue]
LoadEvent ==
    [kind |-> "init", outcome |-> "cleared", input |-> "none", ran |-> {},
     col1 |-> NoValue, col2 |-> NoValue]

\* the page after its initial round of callbacks (contents is None)
Init ==
    /\ stored_data = None
    /\ upload_status = NoAlert
    /\ options1 = <<>>
    /\ options2 = <<>>
    /\ col1_value = NoValue
    /\ col2_value = NoValue
    /\ kpi = update_kpis(None)
    /\ charts = update_charts(None, NoValue, NoValue)
    /\ pending = {}
    /\ charts_data = None
    /\ last_event = LoadEvent

\* an upload whose failure leaves the store as it is (dash.no_update for the
\* store) and writes the status alone
Upload_no_update(contents, filename) ==
    /\ pending = {}
    /\ LET r == store_csv(contents, filename)
       IN IF r.raised
          THEN UNCHANGED <<stored_data, upload_status, pending>>
          ELSE /\ stored_data' = IF r.data = None THEN stored_data ELSE r.data
               /\ upload_status' = r.status
               /\ pending' = TriggeredByStore
    /\ last_event' = UploadEvent(UploadOutcome(contents, filename),
                                 InputClass(contents, filename),
                                 store_csv(contents, filename).ran)
    /\ UNCHANGED <<options1, options2, col1_value, col2_value, kpi, charts,
                   charts_data>>

\* The user drops a file and store_csv runs on it. A store_csv that returns
\* writes both of its outputs and triggers the three callbacks that read the
\* store; one that raises writes nothing and triggers nothing. Files are
\* dropped on a settled page (the cascades of two uploads do not overlap);
\* selection changes come at any time.
Upload(contents, filename) ==
    /\ pending = {}
    /\ LET r == store_csv(contents, filename)
       IN IF r.raised
          THEN UNCHANGED <<stored_data, upload_status, pending>>
          ELSE /\ stored_data' = r.data
               /\ upload_status' = r.status
               /\ pending' = TriggeredByStore
    /\ last_event' = UploadEvent(UploadOutcome(contents, filename),
                                 InputClass(contents, filename),
                                 store_csv(contents, filename).ran)
    /\ UNCHANGED <<options1, options2, col1_value, col2_value, kpi, charts,
                   charts_data>>

RunPopulate ==
    /\ "populate_numeric_dropdowns" \in pending
    /\ options1' = populate_numeric_dropdowns(stored_data)
    /\ options2' = populate_numeric_dropdowns(stored_data)
    /\ pending' = pending \ {"populate_numeric_dropdowns"}
    /\ UNCHANGED <<stored_data, upload_status, col1_value, col2_value, kpi,
                   charts, charts_data, last_event>>

RunKpis ==
    /\ "update_kpis" \in pending
    /\ kpi' = update_kpis(stored_data)
    /\ pending' = pending \ {"update_kpis"}
    /\ UNCHANGED <<stored_data, upload_status, options1, options2, col1_value,
                   col2_value, charts, charts_data, last_event>>

RunCharts ==
    /\ "update_charts" \in pending
    /\ charts' = update_charts(InputData(stored_data, charts_data),
                               col1_value, col2_value)
    /\ charts_data' = InputData(stored_data, charts_data)
    /\ pending' = pending \ {"update_charts"}
    /\ UNCHANGED <<stored_data, upload_status, options1, options2, col1_value,
                   col2_value, kpi, last_event>>

\* the user picks one of the offered options, or clears the dropdown
SelectPrimary(value) ==
    /\ value # col1_value
    /\ col1_value' = value
    /\ pending' = pending \cup TriggeredByValue
    /\ last_event' = SelectEvent
    /\ UNCHANGED <<stored_data, upload_status, options1, options2, col2_value,
                   kpi, charts, charts_data>>

SelectSecondary(value) ==
    /\ value # col2_value
    /\ col2_value' = value
    /\ pending' = pending \cup TriggeredByValue
    /\ last_event' = SelectEvent
    /\ UNCHANGED <<stored_data, upload_status, options1, options2, col1_value,
                   kpi, charts, charts_data>>

Next ==
    \/ \E contents \in Contents, filename \in Filenames : Upload(contents, filename)
    \/ RunPopulate
    \/ RunKpis
    \/ RunCharts
    \/ \E value \in SeqToSet(options1) \cup {NoValue} : SelectPrimary(value)
    \/ \E value \in SeqToSet(options2) \cup {NoValue} : SelectSecondary(value)

Spec == Init /\ [][Next]_vars

\* the step by which a triggered callback has run: RunPopulate, RunKpis and
\* RunCharts are the only steps that take their callback out of pending
Dispatched(callback) ==
    callback \in pending /\ pending' = pending \ {callback}

\* Dash runs every callback that an Input change has triggered
FairSpec ==
    /\ Spec
    /\ WF_pending(Dispatched("populate_numeric_dropdowns"))
    /\ WF_pending(Dispatched("update_kpis"))
    /\ WF_pending(Dispatched("update_charts"))

---------------------------------------------------------------------------
(* Vocabulary of the properties *)

Quiescent == pending = {}

IsError(status) == status.color \in {"danger", "warning"}
IsSuccess(status) == status.color = "success"

IsPlaceholder(fig) == fig.kind = "annotation"

AllPlaceholders ==
    /\ IsPlaceholder(charts.chart1) /\ IsPlaceholder(charts.chart2)
    /\ IsPlaceholder(charts.chart3) /\ IsPlaceholder(charts.chart4)
    /\ IsPlaceholder(charts.heatmap)

\* the numeric columns of the stored table, in schema order
Schema == IF stored_data = None THEN <<>>
          ELSE numeric_columns(read_json(stored_data))

InSchema(col) == \E i \in DOMAIN Schema : Schema[i] = col

\* the column the single-column aggregates are drawn over
Primary == charts.chart1.x
SinglesUse(col) ==
    /\ charts.chart1.kind = "histogram" /\ charts.chart1.x = col
    /\ charts.chart2.kind = "pie" /\ charts.chart2.x = col
    /\ charts.chart3.kind = "line" /\ charts.chart3.y = col

PairwiseUses(x, y) ==
    /\ charts.chart4.kind = "scatter"
    /\ charts.chart4.x = x /\ charts.chart4.y = y

ChartsSettled == "update_charts" \notin pending
KpisSettled == "update_kpis" \notin pending

\* the non-missing cells of the stored column called col, read off the JSON
StoredColumn(col) ==
    CHOOSE j \in DOMAIN stored_data.columns : stored_data.columns[j] = col
StoredRows(col) ==
    {r \in DOMAIN stored_data.data : stored_data.data[r][StoredColumn(col)] >= 0}
RECURSIVE StoredSum(_, _)
StoredSum(col, rows) ==
    IF rows = {} THEN 0
    ELSE LET r == CHOOSE x \in rows : TRUE
         IN stored_data.data[r][StoredColumn(col)] + StoredSum(col, rows \ {r})

\* cents is the mean of the non-missing cells of col, to the nearest hundredth
IsMeanOf(cents, col) ==
    LET n == Cardinality(StoredRows(col))
        d == cents * n - 100 * StoredSum(col, StoredRows(col))
    IN n > 0 /\ 2 * d <= n /\ 2 * d >= -n

Min(a, b) == IF a < b THEN a ELSE b

---------------------------------------------------------------------------
(* The claims *)

\* C1: after an upload whose ingestion fails (bad extension, payload that does
\* not parse, empty table) the store holds no table and the status shows an
\* error message, whatever was loaded before.
C1_FailedUploadEndsEmpty ==
    (last_event.kind = "upload" /\ last_event.outcome = "failed")
        => (stored_data = None /\ IsError(upload_status))

\* C2: in every state, the states between the callbacks of one upload
\* included, an error status is never shown next to KPI values, dropdown
\* options or figures of a table: under an error all KPIs are "-", the option
\* lists are empty and the five figures are placeholders.
C2_NoStaleDataNextToError ==
    IsError(upload_status)
        => /\ \A i \in DOMAIN kpi : kpi[i] = Dash
           /\ options1 = <<>> /\ options2 = <<>>
           /\ AllPlaceholders

\* C3: a change of a dropdown value in the loaded, settled page triggers
\* update_charts alone, and neither the change nor the recomputation it
\* triggers touches the store, the status, the option lists or the KPIs.
C3_SelectionChangeFrame ==
    [][(stored_data # None /\ pending \subseteq {"update_charts"}
            /\ last_event'.kind = "select")
        => (/\ UNCHANGED <<stored_data, upload_status, options1, options2, kpi>>
            /\ pending' \subseteq {"update_charts"}
            /\ (pending' = {} => charts' =
                    update_charts(stored_data, col1_value, col2_value)))]_vars

C3_Witness ==
    /\ last_event.kind = "select" /\ Quiescent /\ stored_data # None
    /\ Len(Schema) >= 2
    /\ col1_value = Schema[2] /\ SinglesUse(Schema[2])
    /\ kpi[1] # Dash /\ IsSuccess(upload_status)

\* C4 as stated: a successful upload resets the selection, so once its
\* callbacks have run the aggregates are over the first and the second numeric
\* column of the new table.
C4_IngestionResetsSelection ==
    (Quiescent /\ last_event.kind = "upload" /\ last_event.outcome = "loaded"
        /\ Len(Schema) >= 1)
        => /\ SinglesUse(Schema[1])
           /\ Len(Schema) >= 2 => PairwiseUses(Schema[1], Schema[2])

\* C4 amended: a successful upload leaves the selection as it was: once its
\* callbacks have run, the aggregates are over the columns selected before the
\* upload where these are numeric columns of the new table, and over the first
\* and second numeric column only where they are not.
C4_IngestionKeepsSelection ==
    (Quiescent /\ last_event.kind = "upload" /\ last_event.outcome = "loaded"
        /\ Len(Schema) >= 1)
        => LET p == IF InSchema(last_event.col1) THEN last_event.col1
                    ELSE Schema[1]
               q == IF InSchema(last_event.col2) THEN last_event.col2
                    ELSE IF Len(Schema) >= 2 THEN Schema[2] ELSE NoValue
           IN /\ col1_value = last_event.col1 /\ col2_value = last_event.col2
              /\ SinglesUse(p)
              /\ q # NoValue => PairwiseUses(p, q)
              /\ q = NoValue => IsPlaceholder(charts.chart4)

C4_Witness ==
    /\ Quiescent /\ last_event.kind = "upload" /\ last_event.outcome = "loaded"
    /\ Len(Schema) >= 3
    /\ last_event.col1 = Schema[2] /\ last_event.col2 = Schema[3]
    /\ SinglesUse(Schema[2]) /\ PairwiseUses(Schema[2], Schema[3])

\* C5: an update_charts run that follows a selection change works on the table
\* that is in the store when it runs, so after an upload has replaced the table
\* it reads the new table and not the one of its previous run.
C5_SelectionReadsNewTable ==
    [][(last_event.kind = "select" /\ ~ChartsSettled /\ ChartsSettled')
        => (/\ charts_data' = stored_data
            /\ charts' = update_charts(stored_data, col1_value, col2_value))]_vars

\* a selection change made while the KPI cards still show the replaced table
C5_Witness ==
    /\ last_event.kind = "select" /\ ChartsSettled
    /\ stored_data # None /\ charts_data = stored_data
    /\ ~KpisSettled /\ kpi[1] # Dash /\ kpi # update_kpis(stored_data)
    /\ col1_value # NoValue /\ SinglesUse(col1_value)

\* C6: when the figures are up to date with a stored table, the primary column
\* is the selected one if that is a numeric column of the table and else the
\* first numeric column; with no numeric column all five are placeholders.
C6_PrimaryResolution ==
    (ChartsSettled /\ stored_data # None)
        => IF Len(Schema) = 0 THEN AllPlaceholders
           ELSE SinglesUse(IF InSchema(col1_value) THEN col1_value
                           ELSE Schema[1])

\* a selection left over from the table before, which the new one lacks
C6_Witness ==
    /\ ChartsSettled /\ stored_data # None
    /\ col1_value # NoValue /\ ~InSchema(col1_value)
    /\ Len(Schema) >= 2 /\ SinglesUse(Schema[1])

\* C7: when the figures are up to date with a table that has a numeric column,
\* the secondary column is the selected one if that is numeric in the table,
\* else the second numeric column, else unset with the scatter a placeholder;
\* numeric columns a, b, c and no selection give the scatter of (a, b).
C7_SecondaryResolution ==
    (ChartsSettled /\ stored_data # None /\ Len(Schema) >= 1)
        => /\ IF InSchema(col2_value)
              THEN charts.chart4.kind = "scatter" /\ charts.chart4.y = col2_value
              ELSE IF Len(Schema) >= 2
              THEN charts.chart4.kind = "scatter" /\ charts.chart4.y = Schema[2]
              ELSE IsPlaceholder(charts.chart4)
           /\ (Schema = <<"a", "b", "c">> /\ col1_value = NoValue
                    /\ col2_value = NoValue) => PairwiseUses("a", "b")

C7_Witness ==
    /\ ChartsSettled /\ Schema = <<"a", "b", "c">>
    /\ col1_value = NoValue /\ col2_value = NoValue
    /\ PairwiseUses("a", "b")

\* C8: the KPI output has 4 entries, and once update_kpis has run on the store
\* every entry past the number of numeric columns is "-" (all 4 with no table).
C8_KpiShape ==
    /\ Len(kpi) = 4
    /\ KpisSettled => \A i \in 1..4 : i > Len(Schema) => kpi[i] = Dash

C8_Witness ==
    /\ KpisSettled /\ Len(Schema) = 2
    /\ kpi[2] # Dash /\ kpi[3] = Dash /\ kpi[4] = Dash

\* C9: once update_kpis has run on a stored table with k numeric columns, entry
\* i < min(k, 4) carries the name of the i-th numeric column in column order
\* and, where that column has a non-missing cell, the mean of its non-missing
\* cells to two decimals; numeric columns a, b, c leave the fourth entry "-".
C9_KpiMeans ==
    (KpisSettled /\ stored_data # None)
        => /\ \A i \in 1..Min(Len(Schema), 4) :
                /\ kpi[i].text = "Avg" /\ kpi[i].label = Schema[i]
                /\ StoredRows(Schema[i]) # {}
                      => ~kpi[i].nan /\ IsMeanOf(kpi[i].cents, Schema[i])
           /\ Schema = <<"a", "b", "c">> => kpi[4] = Dash

C9_Witness ==
    /\ KpisSettled /\ Schema = <<"a", "b", "c">>
    /\ Cardinality(StoredRows("a")) = 1
    /\ kpi[1].cents = 300 /\ kpi[2].cents = 250 /\ kpi[4] = Dash

\* C10: a KPI over a numeric column whose cells are all missing shows the
\* absent value "-" and never a NaN.
C10_AllMissingIsAbsent ==
    (KpisSettled /\ stored_data # None)
        => \A i \in 1..Min(Len(Schema), 4) :
              StoredRows(Schema[i]) = {} => (kpi[i] = Dash /\ ~kpi[i].nan)

C12_HeaderOnlyIsEmptyTable ==
    (last_event.kind = "upload" /\ last_event.input = "header_only")
        => (upload_status = EmptyTable /\ stored_data = None)

\* a header-only upload, with a table loaded before it
C12_Witness ==
    /\ last_event.kind = "upload" /\ last_event.input = "header_only"
    /\ "read_csv" \in last_event.ran
    /\ upload_status = EmptyTable /\ stored_data = None
    /\ kpi[1] # Dash /\ options1 # <<>>

\* C13: an upload with an accepted filename whose payload has a malformed
\* envelope, does not decode or does not parse ends with the "Error processing
\* file" alert and no table in the store; store_csv always produces an outcome.
C13_UndecodableIsParseFailure ==
    (last_event.kind = "upload"
        /\ last_event.input \in {"envelope", "base64", "utf8", "rows"})
        => (upload_status = ParseFailure /\ stored_data = None)

\* C14: when the figures are up to date with a stored table that has exactly
\* one numeric column, then for every selection the heatmap and the scatter
\* are both placeholders and the histogram, pie and line are over that column.
C14_OneNumericColumn ==
    (ChartsSettled /\ stored_data # None /\ Len(Schema) = 1)
        => /\ IsPlaceholder(charts.heatmap)
           /\ IsPlaceholder(charts.chart4)
           /\ SinglesUse(Schema[1])

\* C18: when the figures are up to date, every column a figure is drawn over
\* is a numeric column of the table now in the store, also when a selection
\* names a column that the table lacks or that is not numeric in it; the
\* heatmap is over exactly the numeric columns. No table, no figure.
C18_ColumnsWithinSchema ==
    ChartsSettled
        => /\ stored_data = None => AllPlaceholders
           /\ ~IsPlaceholder(charts.chart1)
                 => InSchema(charts.chart1.x) /\ InSchema(charts.chart2.x)
                    /\ InSchema(charts.chart3.y)
           /\ ~IsPlaceholder(charts.chart4)
                 => InSchema(charts.chart4.x) /\ InSchema(charts.chart4.y)
           /\ ~IsPlaceholder(charts.heatmap)
                 => charts.heatmap.columns = Schema

\* after a re-upload both selections name columns that are not numeric columns
\* of the new table, and the figures are over its own columns
C18_Witness ==
    /\ ChartsSettled /\ Quiescent /\ last_event.kind = "upload"
    /\ stored_data # None
    /\ col1_value # NoValue /\ ~InSchema(col1_value)
    /\ col2_value # NoValue /\ ~InSchema(col2_value)
    /\ col1_value \in SeqToSet(stored_data.columns)
    /\ Len(Schema) >= 2
    /\ PairwiseUses(Schema[1], Schema[2])
    /\ charts.heatmap.columns = Schema

\* C19: when the figures are up to date and the scatter is not a placeholder,
\* its two columns are two different numeric columns of the stored table.
C19_PairwiseDistinct ==
    (ChartsSettled /\ ~IsPlaceholder(charts.chart4))
        => /\ InSchema(charts.chart4.x) /\ InSchema(charts.chart4.y)
           /\ charts.chart4.x # charts.chart4.y

\* C17: the store holds a table exactly when the status is the success
\* alert: store_csv writes the two together, every error or empty outcome
\* leaves the store without a table, and the page starts with neither.
C17_StoreIffSuccess ==
    /\ (stored_data # None) <=> (upload_status = Success)
    /\ stored_data = None
          => upload_status \in {NoAlert, BadExtension, ParseFailure, EmptyTable}

\* both sides of the equivalence met: an upload that store_csv gave up on,
\* the table and the success alert of the upload before still in place
C17_Witness ==
    /\ last_event.kind = "upload" /\ last_event.outcome = "failed"
    /\ stored_data # None /\ upload_status = Success

\* C16: a heatmap that is not a placeholder shows a square matrix with one row
\* and one column for each numeric column of the table it was computed from,
\* which is symmetric and has 1.0 in every diagonal entry that is not NaN.
C16_CorrelationMatrix ==
    ~IsPlaceholder(charts.heatmap)
        => LET z == charts.heatmap.z
               k == Len(charts.heatmap.columns)
           IN /\ charts.heatmap.columns = numeric_columns(read_json(charts_data))
              /\ k >= 2 /\ Len(z) = k
              /\ \A i \in 1..k : Len(z[i]) = k
              /\ \A i \in 1..k : \A j \in 1..k : z[i][j] = z[j][i]
              /\ \A i \in 1..k :
                    ~z[i][i].nan => z[i][i] = Coefficient(1, 1, 1)

\* a matrix with a diagonal entry that is NaN, one that is 1.0 and a negative
\* correlation off the diagonal
C16_Witness ==
    /\ ~IsPlaceholder(charts.heatmap) /\ Len(charts.heatmap.z) = 3
    /\ charts.heatmap.z[1][1].nan
    /\ charts.heatmap.z[2][2] = Coefficient(1, 1, 1)
    /\ charts.heatmap.z[2][3] = Coefficient(-1, 1, 1)
    /\ charts.heatmap.z[3][2] = Coefficient(-1, 1, 1)

\* the outputs of the three callbacks are what the callbacks return for the
\* table in the store and the values of the two dropdowns
DerivedFromCurrent ==
    /\ options1 = populate_numeric_dropdowns(stored_data)
    /\ options2 = populate_numeric_dropdowns(stored_data)
    /\ kpi = update_kpis(stored_data)
    /\ charts = update_charts(stored_data, col1_value, col2_value)

====
